---- MODULE Spec2Model ----
(***************************************************************************)
(* A model of ModelFramework (aidd_codebase/framework/framework.py): a     *)
(* LightningModule that stores a model, an optimizer, a scheduler, logger  *)
(* sinks and per-stage metric trackers, delegates its three step methods   *)
(* to an injected loop callable and keeps its trackers in metrics_list.    *)
(*                                                                         *)
(* Python values are modelled as records: an Optional[...] constructor     *)
(* argument is [kind |-> "none"], a str is [kind |-> "str"], an object     *)
(* with methods is [kind |-> "obj"].  A raised exception is recorded in    *)
(* last.err together with the effects the method had before it raised.     *)
(***************************************************************************)
EXTENDS Integers, Sequences, FiniteSets, TLC

\* ---------------------------------------------------------------- bounds
MaxTrackers == 2    \* Metric objects the hooks create when a client calls them
MaxValues == 1      \* values one tracker records
MaxSteps == 2       \* optimizer_step calls of a client
MaxRuns == 2        \* runs (fit, validate, test) the host makes
MaxEpochs == 2      \* training epochs of one fit run
MaxBatches == 1     \* batches of one epoch of one stage

\* ---------------------------------------------------------------- values
Stages == {"train", "validation", "test"}
StageInputs == Stages \cup {"predict", ""}
Models == {"M0", "M1"}
Loops == {"f", "g"}
Batches == {[id |-> "b0", size |-> 2], [id |-> "b1", size |-> 3]}
BatchIdx == {0, 1}
FirstBatch == [id |-> "b0", size |-> 2]

NoneVal == [kind |-> "none", name |-> "", items |-> <<>>]
StrVal(s) == [kind |-> "str", name |-> s, items |-> <<>>]
ObjVal(s) == [kind |-> "obj", name |-> s, items |-> <<>>]
ListVal(xs) == [kind |-> "list", name |-> "", items |-> xs]

Truthy(v) ==
  CASE v.kind = "none" -> FALSE
    [] v.kind = "str" -> v.name # ""
    [] v.kind = "list" -> Len(v.items) > 0
    [] OTHER -> TRUE

HasMethod(v) == v.kind = "obj"

Range(s) == {s[i] : i \in DOMAIN s}

\* The constructor's arguments for metrics, scheduler and pl_loggers.
MetricsArgs == {NoneVal, ListVal(<<"acc">>), ListVal(<<"acc", "f1">>)}
SchedulerArgs == {NoneVal, StrVal("noam"), ObjVal("sched")}
LoggerArgs ==
  {NoneVal, ListVal(<<>>), ListVal(<<StrVal("tensorboard")>>),
   ListVal(<<ObjVal("sinkA"), ObjVal("sinkB")>>)}

VARIABLES
  hparams, model, optimizer, metrics, scheduler, pl_loggers, metrics_list,
  training_step_imported, validation_step_imported, test_step_imported,
  heap, nextId, base_steps, sched_steps, opt_calls, injected, last,
  pc, run, runs, current_epoch, batches_done, sanity

objVars ==
  <<hparams, model, optimizer, metrics, scheduler, pl_loggers, metrics_list,
    training_step_imported, validation_step_imported, test_step_imported>>
envVars == <<heap, nextId, base_steps, sched_steps, opt_calls, injected, last>>
hostVars == <<pc, run, runs, current_epoch, batches_done, sanity>>
vars == <<objVars, envVars, hostVars>>

\* What the last method call did: its name, arguments, return value (a
\* sequence: <<>> is None), the calls it made on other objects and the
\* exception it raised ("" when it returned).
Outcome(op, arg, ret, calls, err) ==
  [op |-> op, arg |-> arg, ret |-> ret, calls |-> calls, err |-> err]

\* ------------------------------------------------------------ construction
__init__ ==
  /\ \E m \in MetricsArgs, s \in SchedulerArgs, l \in LoggerArgs :
       /\ hparams = [metrics |-> m, scheduler |-> s, pl_loggers |-> l]
       /\ metrics = m
       /\ scheduler = s
       /\ pl_loggers = l
  /\ model = "M0"
  /\ optimizer = [params |-> "M0"]
  /\ metrics_list = [s \in {} |-> <<>>]
  /\ training_step_imported = "unset"
  /\ validation_step_imported = "unset"
  /\ test_step_imported = "unset"

Init ==
  /\ __init__
  /\ heap = [id \in {} |-> <<>>]
  /\ nextId = 1
  /\ base_steps = 0
  /\ sched_steps = 0
  /\ opt_calls = 0
  /\ injected = "unset"
  /\ last = Outcome("__init__", <<>>, <<>>, <<>>, "")
  /\ pc = "idle"
  /\ run = [kind |-> "none", val |-> FALSE]
  /\ runs = 0
  /\ current_epoch = 0
  /\ batches_done = 0
  /\ sanity = FALSE

\* ------------------------------------------------------------- model, loop
set_model(m) ==
  /\ model' = m
  /\ last' = Outcome("set_model", <<m>>, <<>>, <<>>, "")
  /\ UNCHANGED <<hparams, optimizer, metrics, scheduler, pl_loggers,
                 metrics_list, training_step_imported,
                 validation_step_imported, test_step_imported>>
  /\ UNCHANGED <<heap, nextId, base_steps, sched_steps, opt_calls, injected>>

\* set_loop leaving test_step_imported as it was.
set_loop_without_test(loop) ==
  /\ training_step_imported' = loop
  /\ validation_step_imported' = loop
  /\ test_step_imported' = test_step_imported
  /\ injected' = loop
  /\ last' = Outcome("set_loop", <<loop>>, <<>>, <<>>, "")
  /\ UNCHANGED <<hparams, model, optimizer, metrics, scheduler, pl_loggers,
                 metrics_list>>
  /\ UNCHANGED <<heap, nextId, base_steps, sched_steps, opt_calls>>

set_loop(loop) ==
  /\ training_step_imported' = loop
  /\ validation_step_imported' = loop
  /\ test_step_imported' = loop
  /\ injected' = loop
  /\ last' = Outcome("set_loop", <<loop>>, <<>>, <<>>, "")
  /\ UNCHANGED <<hparams, model, optimizer, metrics, scheduler, pl_loggers,
                 metrics_list>>
  /\ UNCHANGED <<heap, nextId, base_steps, sched_steps, opt_calls>>

\* The value of calling the callable fn: the callable is not part of the
\* program, so its result is the term naming the call.
Apply(fn, batch, batch_idx, stage) ==
  [fn |-> fn, self |-> "self", batch |-> batch, batch_idx |-> batch_idx,
   stage |-> stage]

TrackersOf(stage) ==
  IF stage \in DOMAIN metrics_list
  THEN {metrics_list[stage][k] : k \in DOMAIN metrics_list[stage]}
  ELSE {}

\* The injected callable gets self: it may record a value on the trackers of
\* its stage.
LoopEffect(stage) ==
  \E record \in BOOLEAN :
    heap' = [id \in DOMAIN heap |->
               IF /\ record
                  /\ id \in TrackersOf(stage)
                  /\ Len(heap[id].values) < MaxValues
               THEN [heap[id] EXCEPT !.values = Append(@, 1)]
               ELSE heap[id]]

Delegate(op, fn, batch, batch_idx, stage) ==
  /\ IF fn = "unset"
     THEN /\ last' = Outcome(op, <<batch, batch_idx>>, <<>>, <<>>,
                             "AttributeError")
          /\ UNCHANGED heap
     ELSE /\ last' = Outcome(op, <<batch, batch_idx>>,
                             <<Apply(fn, batch, batch_idx, stage)>>,
                             <<Apply(fn, batch, batch_idx, stage)>>, "")
          /\ LoopEffect(stage)
  /\ UNCHANGED objVars
  /\ UNCHANGED <<nextId, base_steps, sched_steps, opt_calls, injected>>

training_step(batch, batch_idx) ==
  Delegate("training_step", training_step_imported, batch, batch_idx, "train")

validation_step(batch, batch_idx) ==
  Delegate("validation_step", validation_step_imported, batch, batch_idx,
           "validation")

\* test_step passing the stage tag of validation_step.
test_step_validation_tag(batch, batch_idx) ==
  Delegate("test_step", test_step_imported, batch, batch_idx, "validation")

test_step(batch, batch_idx) ==
  Delegate("test_step", test_step_imported, batch, batch_idx, "test")

forward(args) ==
  /\ last' = Outcome("forward", <<args>>, <<[fn |-> model, args |-> args]>>,
                     <<[fn |-> model, args |-> args]>>, "")
  /\ UNCHANGED objVars
  /\ UNCHANGED <<heap, nextId, base_steps, sched_steps, opt_calls, injected>>

\* ---------------------------------------------------- optimizer, scheduler
\* Scheduler.set_optimizer: the scheduler, now holding the optimizer.
set_optimizer(s, opt) == [s EXCEPT !.items = <<opt>>]

optimizer_step ==
  /\ opt_calls' = opt_calls + 1
  /\ base_steps' = base_steps + 1
  /\ IF Truthy(scheduler)
     THEN IF HasMethod(scheduler)
          THEN /\ sched_steps' = sched_steps + 1
               /\ last' = Outcome("optimizer_step", <<>>, <<>>,
                                  <<"super.optimizer_step", "scheduler.step">>,
                                  "")
          ELSE /\ sched_steps' = sched_steps
               /\ last' = Outcome("optimizer_step", <<>>, <<>>,
                                  <<"super.optimizer_step">>, "AttributeError")
     ELSE /\ sched_steps' = sched_steps
          /\ last' = Outcome("optimizer_step", <<>>, <<>>,
                             <<"super.optimizer_step">>, "")
  /\ UNCHANGED objVars
  /\ UNCHANGED <<heap, nextId, injected>>

configure_optimizers ==
  /\ IF Truthy(scheduler)
     THEN IF HasMethod(scheduler)
          THEN /\ scheduler' = set_optimizer(scheduler, optimizer)
               /\ last' = Outcome("configure_optimizers", <<>>, <<optimizer>>,
                                  <<"scheduler.set_optimizer">>, "")
          ELSE /\ scheduler' = scheduler
               /\ last' = Outcome("configure_optimizers", <<>>, <<>>, <<>>,
                                  "AttributeError")
     ELSE /\ scheduler' = scheduler
          /\ last' = Outcome("configure_optimizers", <<>>, <<optimizer>>,
                             <<>>, "")
  /\ UNCHANGED <<hparams, model, optimizer, metrics, pl_loggers, metrics_list,
                 training_step_imported, validation_step_imported,
                 test_step_imported>>
  /\ UNCHANGED <<heap, nextId, base_steps, sched_steps, opt_calls, injected>>

\* ------------------------------------------------------------ get_loss_key
\* get_loss_key testing for "val" where the stage is "validation".
get_loss_key_val(stage) ==
  IF stage = "train" THEN "loss"
  ELSE IF stage = "val" THEN "val_loss"
  ELSE "test_loss"

get_loss_key(stage) ==
  IF stage = "train" THEN "loss"
  ELSE IF stage = "validation" THEN "val_loss"
  ELSE "test_loss"

call_get_loss_key(stage) ==
  /\ last' = Outcome("get_loss_key", <<stage>>, <<get_loss_key(stage)>>,
                     <<>>, "")
  /\ UNCHANGED objVars
  /\ UNCHANGED <<heap, nextId, base_steps, sched_steps, opt_calls, injected>>

\* -------------------------------------------- the object's methods, called
\* in any order by a client
Next ==
  \/ \E m \in Models : set_model(m) /\ UNCHANGED hostVars
  \/ \E loop \in Loops : set_loop(loop) /\ UNCHANGED hostVars
  \/ \E b \in Batches, i \in BatchIdx : training_step(b, i) /\ UNCHANGED hostVars
  \/ \E b \in Batches, i \in BatchIdx : validation_step(b, i) /\ UNCHANGED hostVars
  \/ \E b \in Batches, i \in BatchIdx : test_step(b, i) /\ UNCHANGED hostVars
  \/ \E b \in Batches : forward(b) /\ UNCHANGED hostVars
  \/ opt_calls < MaxSteps /\ optimizer_step /\ UNCHANGED hostVars
  \/ configure_optimizers /\ UNCHANGED hostVars
  \/ \E s \in StageInputs : call_get_loss_key(s) /\ UNCHANGED hostVars

Spec == Init /\ [][Next]_vars

\* ------------------------------------------------------- metric trackers
\* A dict key: a str, or the tuple a parenthesised display builds.
StrKey(s) == [kind |-> "str", parts |-> <<s>>]
TupleKey(xs) == [kind |-> "tuple", parts |-> xs]

\* Metric(): a new tracker, no value recorded; born is the epoch of its
\* creation.  heap holds the trackers metrics_list refers to: a tracker the
\* dict entry of its stage no longer holds is dropped from it.
NewMetric == [values |-> <<>>, born |-> current_epoch]

\* list([(loss_key, *self.metrics) if self.metrics else loss_key]): the
\* list display holds ONE element, the tuple or the loss key.
InitKeys(stage) ==
  LET loss_key == get_loss_key(stage)
  IN IF Truthy(metrics)
     THEN <<TupleKey(<<loss_key>> \o metrics.items)>>
     ELSE <<StrKey(loss_key)>>

\* {k: Metric() for k in keys}: one new tracker per element, the last one
\* kept for a repeated key.
FreshTrackers(keys) ==
  [k \in Range(keys) |->
     nextId - 1 + CHOOSE i \in DOMAIN keys :
                    /\ keys[i] = k
                    /\ \A j \in DOMAIN keys : j > i => keys[j] # k]

\* _init_metrics assigning a new dict that holds the one stage.
_init_metrics_new_dict(stage) ==
  LET keys == InitKeys(stage)
  IN /\ metrics_list' = [s \in {stage} |-> FreshTrackers(keys)]
     /\ heap' = [id \in nextId..(nextId + Len(keys) - 1) |-> NewMetric]
     /\ nextId' = nextId + Len(keys)

_init_metrics(stage) ==
  LET keys == InitKeys(stage)
  IN /\ metrics_list' = [s \in DOMAIN metrics_list \cup {stage} |->
                           IF s = stage THEN FreshTrackers(keys)
                           ELSE metrics_list[s]]
     /\ heap' = [id \in (DOMAIN heap \ TrackersOf(stage))
                           \cup (nextId..(nextId + Len(keys) - 1)) |->
                    IF id >= nextId THEN NewMetric ELSE heap[id]]
     /\ nextId' = nextId + Len(keys)

InitHook(op, stage) ==
  /\ _init_metrics(stage)
  /\ last' = Outcome(op, <<stage>>, <<>>, <<>>, "")
  /\ UNCHANGED <<hparams, model, optimizer, metrics, scheduler, pl_loggers,
                 training_step_imported, validation_step_imported,
                 test_step_imported>>
  /\ UNCHANGED <<base_steps, sched_steps, opt_calls, injected>>

on_train_start == InitHook("on_train_start", "train")

on_training_epoch_start == InitHook("on_training_epoch_start", "train")

\* on_validation_epoch_start initialising the test stage.
on_validation_epoch_start_test_stage ==
  InitHook("on_validation_epoch_start", "test")

on_validation_epoch_start == InitHook("on_validation_epoch_start", "validation")

on_test_epoch_start == InitHook("on_test_epoch_start", "test")

\* dict.items(): the keys in insertion order, which is the order of the
\* trackers' creation.
ItemsOf(d) ==
  LET ids == {d[k] : k \in DOMAIN d}
      Nth[n \in 1..Cardinality(ids)] ==
        CHOOSE id \in ids : Cardinality({o \in ids : o < id}) = n - 1
  IN [n \in 1..Cardinality(ids) |->
        [name |-> CHOOSE k \in DOMAIN d : d[k] = Nth[n], id |-> Nth[n]]]

\* _log_metrics over the items: one self.log per tracker, of its last value;
\* values[-1] of a tracker without a value raises IndexError.
LogCalls(items, batch_size) ==
  LET empty == {n \in DOMAIN items : Len(heap[items[n].id].values) = 0}
      stop == IF empty = {} THEN Len(items) + 1
              ELSE CHOOSE n \in empty : \A o \in empty : n <= o
  IN [calls |-> [n \in 1..(stop - 1) |->
                   [callee |-> "self.log", name |-> items[n].name,
                    value |-> heap[items[n].id].values[
                                Len(heap[items[n].id].values)],
                    batch_size |-> batch_size]],
      err |-> IF empty = {} THEN "" ELSE "IndexError"]

BatchEnd(op, stage, batch) ==
  /\ IF stage \notin DOMAIN metrics_list
     THEN last' = Outcome(op, <<batch>>, <<>>, <<>>, "KeyError")
     ELSE LET r == LogCalls(ItemsOf(metrics_list[stage]), batch.size)
          IN last' = Outcome(op, <<batch>>, <<>>, r.calls, r.err)
  /\ UNCHANGED objVars
  /\ UNCHANGED <<heap, nextId, base_steps, sched_steps, opt_calls, injected>>

on_training_batch_end(outputs, batch, batch_idx, dataloader_idx) ==
  BatchEnd("on_training_batch_end", "train", batch)

on_validation_batch_end(outputs, batch, batch_idx, dataloader_idx) ==
  BatchEnd("on_validation_batch_end", "validation", batch)

on_test_batch_end(outputs, batch, batch_idx, dataloader_idx) ==
  BatchEnd("on_test_batch_end", "test", batch)

\* One log_scalar per logger, in order; a logger without the method raises
\* AttributeError and ends the loop.
_log_epoch_metrics(m) ==
  IF Truthy(pl_loggers)
  THEN LET ls == pl_loggers.items
           bad == {n \in DOMAIN ls : ~HasMethod(ls[n])}
           stop == IF bad = {} THEN Len(ls) + 1
                   ELSE CHOOSE n \in bad : \A o \in bad : n <= o
       IN [calls |-> [n \in 1..(stop - 1) |->
                        [callee |-> "log_scalar", logger |-> ls[n],
                         metrics |-> m, epoch |-> current_epoch]],
           err |-> IF bad = {} THEN "" ELSE "AttributeError"]
  ELSE [calls |-> <<>>, err |-> ""]

EpochEnd(op, stage) ==
  /\ IF stage \notin DOMAIN metrics_list
     THEN last' = Outcome(op, <<stage>>, <<>>, <<>>, "KeyError")
     ELSE LET r == _log_epoch_metrics(metrics_list[stage])
          IN last' = Outcome(op, <<stage>>, <<>>, r.calls, r.err)
  /\ UNCHANGED objVars
  /\ UNCHANGED <<heap, nextId, base_steps, sched_steps, opt_calls, injected>>

training_epoch_end(outputs) == EpochEnd("training_epoch_end", "train")

validation_epoch_end(outputs) == EpochEnd("validation_epoch_end", "validation")

test_epoch_end(outputs) == EpochEnd("test_epoch_end", "test")

\* ------------------------------------------- the hooks, called in any order
HookNext ==
  \/ \E m \in Models : set_model(m) /\ UNCHANGED hostVars
  \/ \E loop \in Loops : set_loop(loop) /\ UNCHANGED hostVars
  \/ training_step(FirstBatch, 0) /\ UNCHANGED hostVars
  \/ validation_step(FirstBatch, 0) /\ UNCHANGED hostVars
  \/ test_step(FirstBatch, 0) /\ UNCHANGED hostVars
  \/ nextId <= MaxTrackers /\ on_train_start /\ UNCHANGED hostVars
  \/ nextId <= MaxTrackers /\ on_training_epoch_start /\ UNCHANGED hostVars
  \/ nextId <= MaxTrackers /\ on_validation_epoch_start /\ UNCHANGED hostVars
  \/ nextId <= MaxTrackers /\ on_test_epoch_start /\ UNCHANGED hostVars
  \/ on_training_batch_end(<<>>, FirstBatch, 0, 0) /\ UNCHANGED hostVars
  \/ on_validation_batch_end(<<>>, FirstBatch, 0, 0) /\ UNCHANGED hostVars
  \/ on_test_batch_end(<<>>, FirstBatch, 0, 0) /\ UNCHANGED hostVars
  \/ training_epoch_end(<<>>) /\ UNCHANGED hostVars
  \/ validation_epoch_end(<<>>) /\ UNCHANGED hostVars
  \/ test_epoch_end(<<>>) /\ UNCHANGED hostVars

HookSpec == Init /\ [][HookNext]_vars

\* ------------------------------------------------- the host's lifecycle
\* The methods the class defines, by name; the host calls a hook by the
\* host's name for it, and a name the class does not define is the base
\* class's hook, which does nothing.
BaseHook(name) ==
  /\ last' = Outcome(name, <<>>, <<>>, <<>>, "")
  /\ UNCHANGED objVars
  /\ UNCHANGED <<heap, nextId, base_steps, sched_steps, opt_calls, injected>>

Dispatch(name, batch, batch_idx) ==
  CASE name = "configure_optimizers" -> configure_optimizers
    [] name = "optimizer_step" -> optimizer_step
    [] name = "training_step" -> training_step(batch, batch_idx)
    [] name = "validation_step" -> validation_step(batch, batch_idx)
    [] name = "test_step" -> test_step(batch, batch_idx)
    [] name = "on_train_start" -> on_train_start
    [] name = "on_training_epoch_start" -> on_training_epoch_start
    [] name = "on_validation_epoch_start" -> on_validation_epoch_start
    [] name = "on_test_epoch_start" -> on_test_epoch_start
    [] name = "on_training_batch_end" ->
         on_training_batch_end(<<>>, batch, batch_idx, 0)
    [] name = "on_validation_batch_end" ->
         on_validation_batch_end(<<>>, batch, batch_idx, 0)
    [] name = "on_test_batch_end" ->
         on_test_batch_end(<<>>, batch, batch_idx, 0)
    [] name = "training_epoch_end" -> training_epoch_end(<<>>)
    [] name = "validation_epoch_end" -> validation_epoch_end(<<>>)
    [] name = "test_epoch_end" -> test_epoch_end(<<>>)
    [] OTHER -> BaseHook(name)

\* One hook call of the host at position at; an exception ends the run.
HostCall(at, name, then) ==
  /\ pc = at
  /\ Dispatch(name, FirstBatch, batches_done)
  /\ pc' = IF last'.err = "" THEN then ELSE "idle"

\* The client sets the loop between runs.
ClientSetLoop ==
  /\ pc = "idle"
  /\ \E loop \in Loops : set_loop(loop)
  /\ UNCHANGED hostVars

\* trainer.fit, trainer.validate, trainer.test: each with a new trainer.
StartRun ==
  /\ pc = "idle"
  /\ runs < MaxRuns
  /\ runs' = runs + 1
  /\ \E kind \in {"fit", "validate", "test"}, val \in BOOLEAN, san \in BOOLEAN :
       /\ run' = [kind |-> kind, val |-> (kind = "fit" /\ val)]
       /\ sanity' = (kind = "fit" /\ val /\ san)
       /\ pc' = CASE kind = "fit" -> "configure"
                  [] kind = "validate" -> "val_epoch_start"
                  [] OTHER -> "test_epoch_start"
  /\ current_epoch' = 0
  /\ batches_done' = 0
  /\ last' = Outcome("Trainer", <<run'.kind>>, <<>>, <<>>, "")
  /\ UNCHANGED objVars
  /\ UNCHANGED <<heap, nextId, base_steps, sched_steps, opt_calls, injected>>

FitConfigure ==
  /\ HostCall("configure", "configure_optimizers",
              IF sanity THEN "val_epoch_start" ELSE "train_start")
  /\ UNCHANGED <<run, runs, current_epoch, batches_done, sanity>>

FitTrainStart ==
  /\ HostCall("train_start", "on_train_start", "train_epoch_start")
  /\ UNCHANGED <<run, runs, current_epoch, batches_done, sanity>>

FitTrainEpochStart ==
  /\ HostCall("train_epoch_start", "on_train_epoch_start", "train_batch")
  /\ batches_done' = 0
  /\ UNCHANGED <<run, runs, current_epoch, sanity>>

FitTrainingStep ==
  /\ HostCall("train_batch", "training_step", "opt_step")
  /\ UNCHANGED <<run, runs, current_epoch, batches_done, sanity>>

FitOptimizerStep ==
  /\ HostCall("opt_step", "optimizer_step", "train_batch_end")
  /\ UNCHANGED <<run, runs, current_epoch, batches_done, sanity>>

FitTrainBatchEnd ==
  /\ HostCall("train_batch_end", "on_train_batch_end",
              IF batches_done + 1 < MaxBatches THEN "train_batch"
              ELSE IF run.val THEN "val_epoch_start" ELSE "train_epoch_end")
  /\ batches_done' = batches_done + 1
  /\ UNCHANGED <<run, runs, current_epoch, sanity>>

FitTrainingEpochEnd ==
  /\ HostCall("train_epoch_end", "training_epoch_end",
              IF current_epoch + 1 < MaxEpochs THEN "train_epoch_start"
              ELSE "idle")
  /\ current_epoch' = current_epoch + 1
  /\ UNCHANGED <<run, runs, batches_done, sanity>>

ValEpochStart ==
  /\ HostCall("val_epoch_start", "on_validation_epoch_start", "val_batch")
  /\ batches_done' = 0
  /\ UNCHANGED <<run, runs, current_epoch, sanity>>

ValStep ==
  /\ HostCall("val_batch", "validation_step", "val_batch_end")
  /\ UNCHANGED <<run, runs, current_epoch, batches_done, sanity>>

ValBatchEnd ==
  /\ HostCall("val_batch_end", "on_validation_batch_end",
              IF batches_done + 1 < MaxBatches THEN "val_batch"
              ELSE "val_epoch_end")
  /\ batches_done' = batches_done + 1
  /\ UNCHANGED <<run, runs, current_epoch, sanity>>

ValEpochEnd ==
  /\ HostCall("val_epoch_end", "validation_epoch_end",
              IF run.kind = "validate" THEN "idle"
              ELSE IF sanity THEN "train_start" ELSE "train_epoch_end")
  /\ sanity' = FALSE
  /\ UNCHANGED <<run, runs, current_epoch, batches_done>>

TestEpochStart ==
  /\ HostCall("test_epoch_start", "on_test_epoch_start", "test_batch")
  /\ batches_done' = 0
  /\ UNCHANGED <<run, runs, current_epoch, sanity>>

TestStep ==
  /\ HostCall("test_batch", "test_step", "test_batch_end")
  /\ UNCHANGED <<run, runs, current_epoch, batches_done, sanity>>

TestBatchEnd ==
  /\ HostCall("test_batch_end", "on_test_batch_end",
              IF batches_done + 1 < MaxBatches THEN "test_batch"
              ELSE "test_epoch_end")
  /\ batches_done' = batches_done + 1
  /\ UNCHANGED <<run, runs, current_epoch, sanity>>

TestEpochEnd ==
  /\ HostCall("test_epoch_end", "test_epoch_end", "idle")
  /\ UNCHANGED <<run, runs, current_epoch, batches_done, sanity>>

LifeNext ==
  \/ ClientSetLoop
  \/ StartRun
  \/ FitConfigure
  \/ FitTrainStart
  \/ FitTrainEpochStart
  \/ FitTrainingStep
  \/ FitOptimizerStep
  \/ FitTrainBatchEnd
  \/ FitTrainingEpochEnd
  \/ ValEpochStart
  \/ ValStep
  \/ ValBatchEnd
  \/ ValEpochEnd
  \/ TestEpochStart
  \/ TestStep
  \/ TestBatchEnd
  \/ TestEpochEnd

LifeSpec == Init /\ [][LifeNext]_vars

\* ================================================================ claims
StepOps == {"training_step", "validation_step", "test_step"}
InitOps ==
  {"on_train_start", "on_training_epoch_start", "on_validation_epoch_start",
   "on_test_epoch_start"}
BatchEndOps ==
  {"on_training_batch_end", "on_validation_batch_end", "on_test_batch_end"}
EpochEndOps == {"training_epoch_end", "validation_epoch_end", "test_epoch_end"}

StageOfStep(op) ==
  CASE op = "training_step" -> "train"
    [] op = "validation_step" -> "validation"
    [] OTHER -> "test"

\* C1: once a loop f is injected, each step returns f(self, batch, i,
\* stage = the stage of the step called): one delegated call, with the batch
\* and the batch index it was given, and the callable's result unmodified.
C1_StepReturnsLoopResult ==
  (last.op \in StepOps /\ injected # "unset") =>
    /\ last.err = ""
    /\ last.ret = <<Apply(injected, last.arg[1], last.arg[2],
                          StageOfStep(last.op))>>
    /\ last.calls = last.ret

C1_Witness ==
  /\ last.op = "test_step"
  /\ injected = "g"
  /\ last.arg = <<[id |-> "b1", size |-> 3], 1>>
  /\ last.ret = <<Apply("g", [id |-> "b1", size |-> 3], 1, "test")>>

\* C2: after _init_metrics(stage) the keys of metrics_list[stage] are the
\* loss key of the stage and each configured metric name, every key one
\* name string with a new tracker of its own.
ConfiguredNames ==
  IF hparams.metrics.kind = "none" THEN {} ELSE Range(hparams.metrics.items)

C2_KeysAreLossKeyAndNames ==
  last.op \in InitOps =>
    LET stage == last.arg[1]
        d == metrics_list[stage]
    IN /\ DOMAIN d = {StrKey(get_loss_key(stage))}
                       \cup {StrKey(n) : n \in ConfiguredNames}
       /\ \A k1, k2 \in DOMAIN d : d[k1] = d[k2] => k1 = k2
       /\ \A k \in DOMAIN d : heap[d[k]].values = <<>>

\* C3: at the end of an epoch of a stage every configured sink gets one
\* log_scalar call, in configured order, with the tracker map of that stage
\* and the current epoch; without sinks no call is made and the hook returns.
C3_EachSinkLoggedOnce ==
  last.op \in EpochEndOps =>
    LET stage == last.arg[1]
        epoch == IF last.op = "training_epoch_end" THEN current_epoch - 1
                 ELSE current_epoch
        sinks == hparams.pl_loggers.items
    IN /\ last.err = ""
       /\ last.calls = [n \in DOMAIN sinks |->
                          [callee |-> "log_scalar", logger |-> sinks[n],
                           metrics |-> metrics_list[stage], epoch |-> epoch]]

\* C4: in a run of the host, at the first batch of every epoch k >= 1 of a
\* stage the trackers of that stage were created in epoch k, not carried
\* over from an earlier one.
FreshAt(stage) == \A id \in TrackersOf(stage) : heap[id].born = current_epoch

C4_TrackersRenewedEachEpoch ==
  (batches_done = 0 /\ current_epoch >= 1) =>
    /\ pc = "train_batch" => FreshAt("train")
    /\ pc = "val_batch" => FreshAt("validation")
    /\ pc = "test_batch" => FreshAt("test")

\* C5: an initialisation of one stage replaces the entry of that stage only:
\* the entries of the other stages, their trackers and the values these
\* recorded stay, and so do model, optimizer, scheduler, loggers and loop.
C5_InitReplacesOneStage ==
  [][last'.op \in InitOps =>
       LET stage == last'.arg[1]
       IN /\ \A t \in Stages \ {stage} :
               /\ (t \in DOMAIN metrics_list') <=> (t \in DOMAIN metrics_list)
               /\ t \in DOMAIN metrics_list =>
                    /\ metrics_list'[t] = metrics_list[t]
                    /\ \A id \in TrackersOf(t) :
                         id \in DOMAIN heap' /\ heap'[id] = heap[id]
          /\ stage \in DOMAIN metrics_list'
          /\ \A k \in DOMAIN metrics_list'[stage] :
               metrics_list'[stage][k] >= nextId
          /\ UNCHANGED <<model, optimizer, scheduler, pl_loggers,
                         training_step_imported, validation_step_imported,
                         test_step_imported>>]_vars

C5_Witness ==
  /\ last.op = "on_validation_epoch_start"
  /\ "train" \in DOMAIN metrics_list
  /\ \E id \in TrackersOf("train") : heap[id].values # <<>>
  /\ model = "M1"
  /\ injected = "f"

\* C6: after any sequence of set_loop calls the three steps delegate to the
\* callable of the most recent set_loop, and set_loop changes nothing else.
C6_AllStepsUseLatestLoop ==
  [][/\ last'.op = "set_loop" =>
          /\ training_step_imported' = last'.arg[1]
          /\ validation_step_imported' = last'.arg[1]
          /\ test_step_imported' = last'.arg[1]
          /\ UNCHANGED <<hparams, model, optimizer, metrics, scheduler,
                         pl_loggers, metrics_list, heap>>
     /\ (last'.op \in StepOps /\ injected # "unset") =>
          /\ last'.err = ""
          /\ last'.ret[1].fn = injected]_vars

C6_Witness ==
  /\ last.op = "test_step"
  /\ injected = "g"
  /\ last.ret # <<>>
  /\ last.ret[1].fn = "g"
  /\ training_step_imported = "g"
  /\ validation_step_imported = "g"
  /\ DOMAIN metrics_list # {}
  /\ model = "M1"

\* C7: with a scheduler configured every optimizer_step makes the base step
\* and then one scheduler step, n scheduler steps after n calls; without one
\* only the base step is made and configure_optimizers returns the
\* optimizer and leaves the scheduler alone.
C7_SchedulerSteppedPerStep ==
  /\ base_steps = opt_calls
  /\ hparams.scheduler.kind # "none" =>
       /\ sched_steps = opt_calls
       /\ last.op = "optimizer_step" =>
            /\ last.err = ""
            /\ last.calls = <<"super.optimizer_step", "scheduler.step">>
  /\ hparams.scheduler.kind = "none" =>
       /\ sched_steps = 0
       /\ scheduler = NoneVal
       /\ last.op = "optimizer_step" =>
            last.calls = <<"super.optimizer_step">>
       /\ last.op = "configure_optimizers" => last.ret = <<optimizer>>

\* C8: after any set_model calls the optimizer that configure_optimizers
\* returns holds the parameters of the model that forward calls.
C8_OptimizerHoldsCurrentModel ==
  /\ optimizer.params = model
  /\ (last.op = "configure_optimizers" /\ last.err = "") =>
       last.ret[1].params = model

\* C9: in the host's fit, validate and test runs no hook that reads the
\* tracker map of a stage finds the stage missing from metrics_list.
C9_StageInitialisedBeforeRead ==
  /\ last.op \in BatchEndOps \cup EpochEndOps => last.err # "KeyError"
  /\ pc \in {"val_batch_end", "val_epoch_end"} =>
       "validation" \in DOMAIN metrics_list
  /\ pc = "train_epoch_end" => "train" \in DOMAIN metrics_list
  /\ pc \in {"test_batch_end", "test_epoch_end"} =>
       "test" \in DOMAIN metrics_list

C9_Witness ==
  /\ last.op = "validation_epoch_end"
  /\ last.err = ""
  /\ run.kind = "fit"
  /\ pc = "train_start"
  /\ "train" \notin DOMAIN metrics_list

\* C10: get_loss_key returns "loss" for "train", "val_loss" for
\* "validation" and "test_loss" for every other stage, raises for none, and
\* the keys of the three stages are pairwise distinct.
C10_LossKeyOfStage ==
  /\ last.op = "get_loss_key" =>
       /\ last.err = ""
       /\ last.arg[1] = "train" => last.ret = <<"loss">>
       /\ last.arg[1] = "validation" => last.ret = <<"val_loss">>
       /\ last.arg[1] \notin {"train", "validation"} =>
            last.ret = <<"test_loss">>
  /\ \A s, t \in Stages : s # t => get_loss_key(s) # get_loss_key(t)

C10_Witness ==
  /\ last.op = "get_loss_key"
  /\ last.arg = <<"predict">>
  /\ last.ret = <<"test_loss">>

====
